---- MODULE Spec2Model ----
(***************************************************************************)
(* MqttRangeMonitor 0.2: the on_message callback of MqttRangeMonitor.py,   *)
(* its per-topic hysteresis state machine, the global userdata_lock and    *)
(* the Telegram notification it sends.                                     *)
(*                                                                         *)
(* Numbers: min_value, max_value, hysteresis and the parsed payloads are   *)
(* integers here (the Python code compares floats; every comparison of the *)
(* code is kept with its operator).  A payload is a sequence of bytes, one *)
(* token per byte; "FF" is a byte that is not valid UTF-8.                 *)
(***************************************************************************)
EXTENDS Integers, Sequences, FiniteSets, TLC

\* ------------------------------------------------------------------ bounds
\* messages the broker delivers in a run of Spec
MaxEvents == 3
\* values the broker delivers on the topic in a run of SpecSeq
MaxSeqLen == 4
\* values the broker delivers on the topic in a run of SpecScenario
MaxScenarioLen == 5

\* ------------------------------------------------------- threads and names
\* the threads that may run on_message (spec section 5: "dispatch
\* concurrently from multiple threads"); Main is the paho network loop
Threads == {"Main", "Worker"}

NoThread == "NoThread"

NoTopic == "NoTopic"

\* ------------------------------------------------------------- byte strings
Digits == <<"0", "1", "2", "3", "4", "5", "6", "7", "8", "9">>

IsDigit(c) == \E i \in DOMAIN Digits : Digits[i] = c

DigitValue(c) == (CHOOSE i \in DOMAIN Digits : Digits[i] = c) - 1

IsSpace(c) == c = " "

\* a byte that bytes.decode() (UTF-8, strict) rejects
InvalidByte == "FF"

\* msg.payload.decode() raises UnicodeDecodeError
DecodeFails(payload) == \E i \in DOMAIN payload : payload[i] = InvalidByte

RECURSIVE LStrip(_)
LStrip(s) == IF s # <<>> /\ IsSpace(Head(s)) THEN LStrip(Tail(s)) ELSE s

RECURSIVE RStrip(_)
RStrip(s) ==
    IF s # <<>> /\ IsSpace(s[Len(s)]) THEN RStrip(SubSeq(s, 1, Len(s) - 1)) ELSE s

\* str.strip()
Strip(s) == RStrip(LStrip(s))

\* the digits of a literal, after its optional sign
Unsigned(s) == IF s # <<>> /\ Head(s) \in {"+", "-"} THEN Tail(s) ELSE s

\* float(s) returns (does not raise ValueError): optional blanks, optional
\* sign, one or more digits, over the byte alphabet of this model
FloatParses(s) ==
    LET body == Unsigned(Strip(s))
    IN  body # <<>> /\ \A i \in DOMAIN body : IsDigit(body[i])

RECURSIVE Magnitude(_)
Magnitude(d) ==
    IF d = <<>> THEN 0
    ELSE 10 * Magnitude(SubSeq(d, 1, Len(d) - 1)) + DigitValue(d[Len(d)])

\* float(s), for a string float() accepts
FloatValue(s) ==
    LET t == Strip(s)
    IN  IF t # <<>> /\ Head(t) = "-" THEN 0 - Magnitude(Unsigned(t))
        ELSE Magnitude(Unsigned(t))

\* --------------------------------------------------------------- thresholds
\* a slip: the hysteresis subtracted at the upper out-threshold
high_out_threshold_minus(m) == m.max_value - m.hysteresis

high_out_threshold(m) == m.max_value + m.hysteresis

low_out_threshold(m) == m.min_value - m.hysteresis

\* a slip: the hysteresis added at the upper in-threshold, so that the
\* return band reaches up to the out-threshold
high_in_threshold_plus(m) == m.max_value + m.hysteresis

high_in_threshold(m) == m.max_value - m.hysteresis

\* a slip: the hysteresis subtracted at the lower in-threshold
low_in_threshold_minus(m) == m.min_value - m.hysteresis

low_in_threshold(m) == m.min_value + m.hysteresis

\* a slip: exclusive comparisons at the out-thresholds
out_of_range_now_strict(v, m) ==
    (v > high_out_threshold(m)) \/ (v < low_out_threshold(m))

\* line 131: the value leaves the range
out_of_range_now(v, m) == (v >= high_out_threshold(m)) \/ (v <= low_out_threshold(m))

\* a slip: exclusive comparisons at the in-thresholds
in_range_now_strict(v, m) == (v < high_in_threshold(m)) /\ (v > low_in_threshold(m))

\* a slip: "or" for "and" between the two in-threshold comparisons
in_range_now_or(v, m) == (v <= high_in_threshold(m)) \/ (v >= low_in_threshold(m))

\* lines 140-143: the value is back inside the return band
in_range_now(v, m) == (v <= high_in_threshold(m)) /\ (v >= low_in_threshold(m))

\* a slip: the ALERT sent for every out-of-range value, without the test of
\* currently_out_of_range
Notification_every_sample(cur, v, m) ==
    IF out_of_range_now(v, m) THEN "ALERT"
    ELSE IF cur /\ in_range_now(v, m) THEN "INFO" ELSE "none"

\* lines 129-149: the notification on_message sends for a value, given the
\* state it read
Notification(cur, v, m) ==
    IF ~cur
    THEN IF out_of_range_now(v, m) THEN "ALERT" ELSE "none"
    ELSE IF in_range_now(v, m) THEN "INFO" ELSE "none"

\* a slip: the return to the range notified but not recorded
NewAlertState_no_return(cur, v, m) ==
    IF ~cur
    THEN out_of_range_now(v, m)
    ELSE TRUE

\* lines 129-145: the alert state on_message leaves for a value, given the
\* state it read
NewAlertState(cur, v, m) ==
    IF ~cur
    THEN out_of_range_now(v, m)
    ELSE ~in_range_now(v, m)

\* -------------------------------------------------------------------- state
VARIABLES
    topics_info,            \* userdata["topics_info"]: list of topic settings
    topic_alert_state,      \* userdata["topic_alert_state"]: topic -> bool
    telegram_configured,    \* bot token and chat id are both non-empty
    userdata_lock,          \* the thread holding the lock, or NoThread
    pc,                     \* where each thread is in on_message
    topic,                  \* msg.topic of the call
    payload,                \* msg.payload of the call, bytes
    payload_str,            \* msg.payload.decode().strip()
    match,                  \* index in topics_info of the settings, 0 = None
    current_value,          \* float(payload_str)
    currently_out_of_range, \* the state read at line 127
    delivery,               \* how send_telegram_message ended
    sent,                   \* calls of send_telegram_message so far
    history,                \* (topic, value) of the calls that reached line 127
    received                \* messages delivered so far

vars == <<topics_info, topic_alert_state, telegram_configured, userdata_lock, pc,
          topic, payload, payload_str, match, current_value, currently_out_of_range,
          delivery, sent, history, received>>

locals == <<topic, payload, payload_str, match, current_value, currently_out_of_range, delivery>>

config == <<topics_info, telegram_configured>>

\* ------------------------------------------------------------ configuration
Settings(t, lo, hi, h) ==
    [topic |-> t, min_value |-> lo, max_value |-> hi, hysteresis |-> h]

\* the "topics" arrays of the config.json files of Spec
TopicLists ==
    { <<Settings("t1", 2, 4, 1)>>,
      <<Settings("t1", 2, 4, 1), Settings("t2", 2, 4, 0)>> }

\* the "topics" arrays of the config.json files of SpecSeq: a band with a
\* dead zone, a band with hysteresis 0, a band narrower than 2 * hysteresis
SeqTopicLists ==
    { <<Settings("t1", 2, 4, 1)>>,
      <<Settings("t1", 2, 4, 0)>>,
      <<Settings("t1", 2, 4, 2)>> }

\* the "topics" array of the scenario of spec section 8
ScenarioTopicList == <<Settings("t1", 10, 20, 2)>>

\* the "topics" arrays of the config.json files of SpecStartup: a band, a
\* band with max_value below min_value, a negative hysteresis, a topic listed
\* twice with different settings, an entry without hysteresis, no entry
ConfigFiles ==
    { <<Settings("t1", 2, 4, 1)>>,
      <<Settings("t1", 4, 2, 1)>>,
      <<Settings("t1", 2, 4, 0 - 1)>>,
      <<Settings("t1", 2, 4, 1), Settings("t1", 0, 6, 0)>>,
      <<[topic |-> "t1", min_value |-> 2, max_value |-> 4]>>,
      << >> }

\* the "topics" arrays of SpecDup: t1 listed twice, in both orders
DupTopicLists ==
    { <<Settings("t1", 2, 4, 1), Settings("t1", 0, 6, 0)>>,
      <<Settings("t1", 0, 6, 0), Settings("t1", 2, 4, 1)>> }

\* lines 188-193: the four fields main() requires of an entry
HasRequiredFields(tinfo) ==
    {"topic", "max_value", "min_value", "hysteresis"} \subseteq DOMAIN tinfo

\* lines 180-195: main() goes on with this "topics" array (it returns, and
\* never monitors, on an empty array or an entry without a required field)
MainAccepts(topics_list) ==
    /\ Len(topics_list) # 0
    /\ \A i \in DOMAIN topics_list : HasRequiredFields(topics_list[i])

\* lines 185-202: topics_info, the four fields of every entry, in order
ParseTopicsInfo(topics_list) ==
    [i \in DOMAIN topics_list |->
        Settings(topics_list[i].topic, topics_list[i].min_value,
                 topics_list[i].max_value, topics_list[i].hysteresis)]

\* topics a message of Spec may arrive on: tx is not configured
EventTopics == {"t1", "t2", "tx"}

\* payloads of Spec: numbers, a number with a sign and a trailing blank,
\* text that is no number, the empty payload, bytes that are not UTF-8
Payloads ==
    { <<"1">>, <<"3">>, <<"+", "5", " ">>, <<"x">>, <<>>, <<InvalidByte>> }

\* payloads of SpecSeq: every value from below low_out to above high_out
SeqPayloads == { <<Digits[i]>> : i \in 1..7 }

\* payloads of the scenario: 15, 23, 19, 17, 8
ScenarioPayloads ==
    { <<"1", "5">>, <<"2", "3">>, <<"1", "9">>, <<"1", "7">>, <<"8">> }

\* a slip: the entries start as True
InitialAlertState_out(infos) ==
    [t \in { infos[i].topic : i \in DOMAIN infos } |-> TRUE]

\* lines 211-213: every configured topic starts in range
InitialAlertState(infos) ==
    [t \in { infos[i].topic : i \in DOMAIN infos } |-> FALSE]

\* a slip: the last entry with the name, as a dict built from the list gives
Match_last(infos, t) ==
    LET idx == { i \in DOMAIN infos : infos[i].topic = t }
    IN  IF idx = {} THEN 0 ELSE CHOOSE i \in idx : \A j \in idx : i >= j

\* line 100: next((t for t in topics_info if t["topic"] == topic), None),
\* as the index of the first entry with that name, 0 for None
Match(infos, t) ==
    LET idx == { i \in DOMAIN infos : infos[i].topic = t }
    IN  IF idx = {} THEN 0 ELSE CHOOSE i \in idx : \A j \in idx : i <= j

\* a slip: the callback runs without waiting for the lock
LockAvailable_unguarded(th) == TRUE

\* line 24 / line 94: Lock.acquire() returns only when no thread holds it
LockAvailable(th) == userdata_lock = NoThread

InitLocals ==
    /\ pc = [th \in Threads |-> "idle"]
    /\ topic = [th \in Threads |-> NoTopic]
    /\ payload = [th \in Threads |-> <<>>]
    /\ payload_str = [th \in Threads |-> <<>>]
    /\ match = [th \in Threads |-> 0]
    /\ current_value = [th \in Threads |-> 0]
    /\ currently_out_of_range = [th \in Threads |-> FALSE]
    /\ delivery = [th \in Threads |-> "none"]

\* the state when main() reaches loop_forever (lines 209-241)
InitWith(lists) ==
    /\ topics_info \in lists
    /\ topic_alert_state = InitialAlertState(topics_info)
    /\ telegram_configured \in BOOLEAN
    /\ userdata_lock = NoThread
    /\ InitLocals
    /\ sent = <<>>
    /\ history = <<>>
    /\ received = 0

Init == InitWith(TopicLists)

InitSeq == InitWith(SeqTopicLists)

InitScenario == InitWith({ScenarioTopicList})

\* main() run on each config file: the files it accepts reach loop_forever
InitStartup ==
    InitWith({ ParseTopicsInfo(f) : f \in { g \in ConfigFiles : MainAccepts(g) } })

InitDup == InitWith(DupTopicLists)

\* ------------------------------------------------------------------ actions
\* lines 90-92: the callback starts; decode() raises out of on_message on
\* bytes that are not UTF-8, before the lock is taken
Receive(th, t, p) ==
    /\ pc[th] = "idle"
    /\ received' = received + 1
    /\ topic' = [topic EXCEPT ![th] = t]
    /\ payload' = [payload EXCEPT ![th] = p]
    /\ IF DecodeFails(p)
       THEN /\ pc' = [pc EXCEPT ![th] = "raised"]
            /\ UNCHANGED payload_str
       ELSE /\ pc' = [pc EXCEPT ![th] = "acquire"]
            /\ payload_str' = [payload_str EXCEPT ![th] = Strip(p)]
    /\ UNCHANGED <<config, topic_alert_state, userdata_lock, match, current_value,
                   currently_out_of_range, delivery, sent, history>>

\* line 94: with userdata_lock
Acquire(th) ==
    /\ pc[th] = "acquire"
    /\ LockAvailable(th)
    /\ userdata_lock' = th
    /\ pc' = [pc EXCEPT ![th] = "lookup"]
    /\ UNCHANGED <<config, topic_alert_state, locals, sent, history, received>>

\* lines 96-107: find the settings of the topic, return if there are none
Lookup(th) ==
    /\ pc[th] = "lookup"
    /\ match' = [match EXCEPT ![th] = Match(topics_info, topic[th])]
    /\ pc' = [pc EXCEPT ![th] = IF match'[th] = 0 THEN "exit" ELSE "parse"]
    /\ UNCHANGED <<config, topic_alert_state, userdata_lock, topic, payload, payload_str,
                   current_value, currently_out_of_range, delivery, sent, history,
                   received>>

\* lines 110-114: float(payload_str), return on ValueError
Parse(th) ==
    /\ pc[th] = "parse"
    /\ IF FloatParses(payload_str[th])
       THEN /\ current_value' = [current_value EXCEPT ![th] = FloatValue(payload_str[th])]
            /\ pc' = [pc EXCEPT ![th] = "read"]
       ELSE /\ pc' = [pc EXCEPT ![th] = "exit"]
            /\ UNCHANGED current_value
    /\ UNCHANGED <<config, topic_alert_state, userdata_lock, topic, payload, payload_str,
                   match, currently_out_of_range, delivery, sent, history, received>>

\* lines 118-127: the thresholds, and the state of the topic as it is now
ReadState(th) ==
    /\ pc[th] = "read"
    /\ currently_out_of_range' =
           [currently_out_of_range EXCEPT ![th] = topic_alert_state[topic[th]]]
    /\ history' = Append(history, [topic |-> topic[th], value |-> current_value[th]])
    /\ pc' = [pc EXCEPT ![th] = "decide"]
    /\ UNCHANGED <<config, topic_alert_state, userdata_lock, topic, payload, payload_str,
                   match, current_value, delivery, sent, received>>

\* a slip: the new state stored for every topic
WriteAlertState_all(state, t, b) == [k \in DOMAIN state |-> b]

\* lines 133 / 145: topic_alert_state[topic] = True / False
WriteAlertState(state, t, b) == [state EXCEPT ![t] = b]

\* lines 129-149, up to the call of send_telegram_message: the transition
Decide(th) ==
    LET m == topics_info[match[th]]
        cur == currently_out_of_range[th]
        v == current_value[th]
    IN  /\ pc[th] = "decide"
        /\ topic_alert_state' =
               WriteAlertState(topic_alert_state, topic[th], NewAlertState(cur, v, m))
        /\ pc' = [pc EXCEPT ![th] =
                     IF Notification(cur, v, m) = "none" THEN "exit" ELSE "send"]
        /\ UNCHANGED <<config, userdata_lock, locals, sent, history, received>>

\* how requests.post can end (lines 57-64)
PostOutcomes == {"ok", "http_error", "request_exception"}

\* a slip: the send repeated until Telegram accepts the message
AfterSend_retry(result) == IF result = "ok" THEN "exit" ELSE "send"

\* lines 47-64: whatever the outcome, send_telegram_message logs it and
\* returns, and on_message goes on to the end of the with block
AfterSend(result) == "exit"

\* lines 137 / 149 and 41-64: send_telegram_message, called inside the with
\* block; it returns at once when the token or the chat id is missing, and
\* otherwise blocks in requests.post until the reply, the error or the timeout
Send(th, outcome) ==
    LET m == topics_info[match[th]]
        severity == Notification(currently_out_of_range[th], current_value[th], m)
    IN  /\ pc[th] = "send"
        /\ sent' = Append(sent, [severity |-> severity, topic |-> topic[th]])
        /\ delivery' = [delivery EXCEPT ![th] =
                           IF telegram_configured THEN outcome ELSE "not_configured"]
        /\ pc' = [pc EXCEPT ![th] = AfterSend(delivery'[th])]
        /\ UNCHANGED <<config, topic_alert_state, userdata_lock, topic, payload, payload_str,
                       match, current_value, currently_out_of_range, history,
                       received>>

\* the end of the with block (every return inside it): the lock is released
\* and the callback returns
Exit(th) ==
    /\ pc[th] = "exit"
    /\ userdata_lock' = NoThread
    /\ pc' = [pc EXCEPT ![th] = "idle"]
    /\ topic' = [topic EXCEPT ![th] = NoTopic]
    /\ payload' = [payload EXCEPT ![th] = <<>>]
    /\ payload_str' = [payload_str EXCEPT ![th] = <<>>]
    /\ match' = [match EXCEPT ![th] = 0]
    /\ current_value' = [current_value EXCEPT ![th] = 0]
    /\ currently_out_of_range' = [currently_out_of_range EXCEPT ![th] = FALSE]
    /\ delivery' = [delivery EXCEPT ![th] = "none"]
    /\ UNCHANGED <<config, topic_alert_state, sent, history, received>>

\* the steps of a call after its first
Run(th) ==
    \/ Acquire(th)
    \/ Lookup(th)
    \/ Parse(th)
    \/ ReadState(th)
    \/ Decide(th)
    \/ \E outcome \in PostOutcomes : Send(th, outcome)
    \/ Exit(th)

\* the broker delivers any message, to any thread
Deliver(th) ==
    /\ received < MaxEvents
    /\ \E t \in EventTopics, p \in Payloads : Receive(th, t, p)

\* the broker delivers a value on t1 to the network loop thread
DeliverSeq ==
    /\ received < MaxSeqLen
    /\ \E p \in SeqPayloads : Receive("Main", "t1", p)

\* the broker delivers a value of the scenario on t1
DeliverScenario ==
    /\ received < MaxScenarioLen
    /\ \E p \in ScenarioPayloads : Receive("Main", "t1", p)

Next == \E th \in Threads : Deliver(th) \/ Run(th)

NextSeq == DeliverSeq \/ Run("Main")

NextScenario == DeliverScenario \/ Run("Main")

\* messages dispatched concurrently from several threads
Spec == Init /\ [][Next]_vars

\* messages dispatched one at a time by the network loop thread
SpecSeq == InitSeq /\ [][NextSeq]_vars

\* the scenario of spec section 8
SpecScenario == InitScenario /\ [][NextScenario]_vars

\* main() on the config files, then messages from the network loop thread
SpecStartup == InitStartup /\ [][NextSeq]_vars

\* a topic listed twice, messages from the network loop thread
SpecDup == InitDup /\ [][NextSeq]_vars

\* =================================================================== claims
\* the settings the call of th runs with
Cfg(th) == topics_info[match[th]]

\* the call of th is at the end of the with block, the lock still held
Returning(th) == pc[th] = "exit"

\* the call of th got past the lookup and the parse (it reached line 116)
Evaluated(th) == Returning(th) /\ match[th] # 0 /\ FloatParses(payload_str[th])

\* the notification the call of th handed to send_telegram_message
Emitted(th) == IF delivery[th] = "none" THEN "none" ELSE sent[Len(sent)].severity

\* the alert state of the topic of th as the call leaves it
Post(th) == topic_alert_state[topic[th]]

Configured(t) == t \in DOMAIN topic_alert_state

HistoryValues == [i \in 1..Len(history) |-> history[i].value]

SentSeverities == [i \in 1..Len(sent) |-> sent[i].severity]

Count(sev) == Cardinality({ i \in DOMAIN sent : sent[i].severity = sev })

\* the settings of the only topic of SpecSeq and SpecScenario
Only == topics_info[1]

\* no call is in progress
Quiet == userdata_lock = NoThread /\ \A th \in Threads : pc[th] \in {"idle", "raised"}

\* ------------------------------------------------------------------ C2
\* C2: a call that read "in range" and has a parsed value leaves the topic
\* out of range and has sent one ALERT if value >= max_value + hysteresis or
\* value <= min_value - hysteresis, and otherwise leaves it in range and has
\* sent nothing.
C2_LeavesRangeInclusive ==
    \A th \in Threads :
        (Evaluated(th) /\ ~currently_out_of_range[th]) =>
            LET m == Cfg(th)
                v == current_value[th]
            IN  IF (v >= m.max_value + m.hysteresis) \/ (v <= m.min_value - m.hysteresis)
                THEN Post(th) = TRUE /\ Emitted(th) = "ALERT"
                ELSE Post(th) = FALSE /\ Emitted(th) = "none"

\* a value exactly at max_value + hysteresis has raised the ALERT
C2_Witness ==
    \E th \in Threads :
        /\ Evaluated(th) /\ ~currently_out_of_range[th]
        /\ Cfg(th).hysteresis > 0
        /\ current_value[th] = Cfg(th).max_value + Cfg(th).hysteresis
        /\ Post(th) = TRUE /\ Emitted(th) = "ALERT"

\* ------------------------------------------------------------------ C3
\* C3: a call that read "out of range" and has a parsed value leaves the topic
\* in range and has sent one INFO if min_value + hysteresis <= value <=
\* max_value - hysteresis, and otherwise leaves it out of range and has sent
\* nothing.
C3_ReturnsInclusive ==
    \A th \in Threads :
        (Evaluated(th) /\ currently_out_of_range[th]) =>
            LET m == Cfg(th)
                v == current_value[th]
            IN  IF (v <= m.max_value - m.hysteresis) /\ (v >= m.min_value + m.hysteresis)
                THEN Post(th) = FALSE /\ Emitted(th) = "INFO"
                ELSE Post(th) = TRUE /\ Emitted(th) = "none"

\* a value exactly at max_value - hysteresis has sent the INFO
C3_Witness ==
    \E th \in Threads :
        /\ Evaluated(th) /\ currently_out_of_range[th]
        /\ Cfg(th).hysteresis > 0
        /\ current_value[th] = Cfg(th).max_value - Cfg(th).hysteresis
        /\ Post(th) = FALSE /\ Emitted(th) = "INFO"

\* ------------------------------------------------------------------ C1
\* the values are non-decreasing up to a peak and non-increasing after it
UpThenDown(h) ==
    \E k \in DOMAIN h :
        /\ \A i \in 1..(k - 1) : h[i] <= h[i + 1]
        /\ \A i \in k..(Len(h) - 1) : h[i] >= h[i + 1]

\* the same, with no value repeated
StrictlyUpThenDown(h) ==
    \E k \in DOMAIN h :
        /\ \A i \in 1..(k - 1) : h[i] < h[i + 1]
        /\ \A i \in k..(Len(h) - 1) : h[i] > h[i + 1]

\* the values rise to max_value + hysteresis or beyond and a later value ends
\* the run inside [min_value + hysteresis, max_value - hysteresis]
RisesAndReturns(h, m) ==
    /\ \E i \in 1..(Len(h) - 1) : h[i] >= m.max_value + m.hysteresis
    /\ h[Len(h)] <= m.max_value - m.hysteresis
    /\ h[Len(h)] >= m.min_value + m.hysteresis

\* C1 as stated: every up-then-down run of values that rises past highOut
\* and returns into [lowIn, highIn] has produced exactly one ALERT and one
\* INFO.
C1_NoFlickerAsStated ==
    (Quiet /\ UpThenDown(HistoryValues) /\ RisesAndReturns(HistoryValues, Only)) =>
        (Count("ALERT") = 1 /\ Count("INFO") = 1)

\* C1, amended: the same for a topic with hysteresis >= 0 and the runs whose
\* values all stay above min_value - hysteresis and that, when hysteresis is
\* 0, repeat no value.
C1_NoFlicker ==
    ( /\ Quiet
      /\ Only.hysteresis >= 0
      /\ UpThenDown(HistoryValues)
      /\ RisesAndReturns(HistoryValues, Only)
      /\ \A i \in DOMAIN history : HistoryValues[i] > Only.min_value - Only.hysteresis
      /\ Only.hysteresis > 0 \/ StrictlyUpThenDown(HistoryValues) ) =>
        (Count("ALERT") = 1 /\ Count("INFO") = 1)

\* a run through the dead zone, up and down: one ALERT, one INFO
C1_Witness ==
    /\ Quiet
    /\ Only.hysteresis > 0
    /\ UpThenDown(HistoryValues)
    /\ RisesAndReturns(HistoryValues, Only)
    /\ \A i \in DOMAIN history : HistoryValues[i] > Only.min_value - Only.hysteresis
    /\ Cardinality({ i \in DOMAIN history :
                       /\ HistoryValues[i] > Only.max_value - Only.hysteresis
                       /\ HistoryValues[i] < Only.max_value + Only.hysteresis }) >= 2
    /\ Count("ALERT") = 1 /\ Count("INFO") = 1

\* ------------------------------------------------------------------ C4
\* the call of th handled a value inside [min_value, max_value] that the call
\* before it on the topic had handled too, for a topic with max_value >
\* min_value and hysteresis >= 0
RepeatedInBand(th) ==
    /\ Evaluated(th)
    /\ Cfg(th).max_value > Cfg(th).min_value
    /\ Cfg(th).hysteresis >= 0
    /\ Len(history) >= 2
    /\ history[Len(history)].value = history[Len(history) - 1].value
    /\ current_value[th] >= Cfg(th).min_value
    /\ current_value[th] <= Cfg(th).max_value

\* C4 as stated: a value inside the band, delivered again, produces no
\* notification, for every hysteresis >= 0.
C4_SteadyAsStated ==
    \A th \in Threads : RepeatedInBand(th) => Emitted(th) = "none"

\* C4, amended: a value inside the band, delivered again, produces no
\* notification when hysteresis > 0, or when hysteresis = 0 and the value is
\* strictly between min_value and max_value.
C4_Steady ==
    \A th \in Threads :
        ( /\ RepeatedInBand(th)
          /\ \/ Cfg(th).hysteresis > 0
             \/ /\ current_value[th] > Cfg(th).min_value
                /\ current_value[th] < Cfg(th).max_value ) =>
            (Emitted(th) = "none" /\ Post(th) = currently_out_of_range[th])

\* a value in the band delivered a second time after it had sent the INFO
C4_Witness ==
    \E th \in Threads :
        /\ RepeatedInBand(th)
        /\ Cfg(th).hysteresis > 0
        /\ Len(sent) >= 2
        /\ sent[Len(sent)].severity = "INFO"
        /\ Emitted(th) = "none"

\* ------------------------------------------------------------------ C10
ScenarioValues == <<15, 23, 19, 17, 8>>

ScenarioNotifications == <<"none", "ALERT", "none", "INFO", "ALERT">>

\* the notifications the scenario gives for its first k values
ScenarioSent(k) ==
    SelectSeq(SubSeq(ScenarioNotifications, 1, k), LAMBDA x : x # "none")

\* C10: with t1 = (10, 20, 2), after each prefix of 15, 23, 19, 17, 8 the
\* notifications sent are those of the scenario: none, ALERT, none, INFO,
\* ALERT.
C10_Scenario ==
    \A k \in 0..Len(ScenarioValues) :
        (Quiet /\ HistoryValues = SubSeq(ScenarioValues, 1, k)) =>
            /\ SentSeverities = ScenarioSent(k)
            /\ topic_alert_state["t1"] = (k \in {2, 3, 5})

\* the five values were delivered in order and the third notification is out
C10_Witness ==
    /\ Quiet
    /\ HistoryValues = ScenarioValues
    /\ SentSeverities = <<"ALERT", "INFO", "ALERT">>

\* ------------------------------------------------------------------ C5
\* the topic of the call that th starts or continues in this step
CallTopic(th) == IF pc[th] = "idle" THEN topic'[th] ELSE topic[th]

\* the payload of the call that th starts or continues in this step
CallPayload(th) == IF pc[th] = "idle" THEN payload'[th] ELSE payload[th]

\* th takes a step of on_message
Steps(th) == pc'[th] # pc[th]

\* C5 as stated: no step of a call for a topic that is not configured raises,
\* changes an entry of topic_alert_state or sends a notification, whatever
\* the payload.
C5_UnknownTopicSafe ==
    [][\A th \in Threads :
           (Steps(th) /\ ~Configured(CallTopic(th))) =>
               /\ pc'[th] # "raised"
               /\ topic_alert_state' = topic_alert_state
               /\ sent' = sent]_vars

\* ------------------------------------------------------------------ C6
\* the payload is no floating-point number: its bytes do not decode, or
\* float() rejects the decoded text
Unparsable(p) == DecodeFails(p) \/ ~FloatParses(Strip(p))

\* C6 as stated: no step of a call for a configured topic with a payload that
\* is no floating-point number raises, changes an entry of topic_alert_state
\* or sends a notification.
C6_UnparsableSafe ==
    [][\A th \in Threads :
           (Steps(th) /\ Configured(CallTopic(th)) /\ Unparsable(CallPayload(th))) =>
               /\ pc'[th] # "raised"
               /\ topic_alert_state' = topic_alert_state
               /\ sent' = sent]_vars

\* ------------------------------------------------------------------ C7
\* the alert states after the calls of h, run one after the other
RECURSIVE SerialState(_)
SerialState(h) ==
    IF h = <<>> THEN InitialAlertState(topics_info)
    ELSE LET before == SerialState(SubSeq(h, 1, Len(h) - 1))
             e == h[Len(h)]
             m == topics_info[Match(topics_info, e.topic)]
         IN  [before EXCEPT ![e.topic] = NewAlertState(before[e.topic], e.value, m)]

\* the notifications of the calls of h, run one after the other
RECURSIVE SerialSent(_)
SerialSent(h) ==
    IF h = <<>> THEN <<>>
    ELSE LET front == SubSeq(h, 1, Len(h) - 1)
             e == h[Len(h)]
             m == topics_info[Match(topics_info, e.topic)]
             n == Notification(SerialState(front)[e.topic], e.value, m)
         IN  IF n = "none" THEN SerialSent(front)
             ELSE Append(SerialSent(front), [severity |-> n, topic |-> e.topic])

\* C7: no call decides on a state another call has changed since it was read,
\* and whenever the lock is free the alert states and the notifications are
\* those of the calls run one after the other, in the order they read the
\* state.
C7_Serial ==
    /\ \A th \in Threads :
           pc[th] = "decide" => currently_out_of_range[th] = topic_alert_state[topic[th]]
    /\ userdata_lock = NoThread =>
           /\ topic_alert_state = SerialState(history)
           /\ sent = SerialSent(history)

\* two calls with an out-of-band value on the same in-range topic, received
\* before either took the lock, have both returned: one ALERT
C7_Witness ==
    /\ Quiet
    /\ Len(history) = 2
    /\ history[1] = history[2]
    /\ received = 2
    /\ history[1].value >= 5
    /\ sent = <<[severity |-> "ALERT", topic |-> history[1].topic]>>

\* ------------------------------------------------------------------ C8
\* C8 as stated: while a notification is being sent the lock is not held by
\* the sending call.
C8_SendOutsideLock ==
    \A th \in Threads : pc[th] = "send" => userdata_lock # th

\* ------------------------------------------------------------------ C9
\* a returning call has sent ALERT exactly if it read "in range" and leaves
\* "out of range", INFO exactly if it read "out of range" and leaves "in
\* range"
C9_AtReturn ==
    \A th \in Threads :
        Returning(th) =>
            /\ Emitted(th) = "ALERT" <=>
                   (Evaluated(th) /\ ~currently_out_of_range[th] /\ Post(th))
            /\ Emitted(th) = "INFO" <=>
                   (Evaluated(th) /\ currently_out_of_range[th] /\ ~Post(th))

\* a step adds at most one notification, only the call that is sending adds
\* it, a call sends only right after its transition and returns after it, and
\* only a deciding call writes an alert state
C9_Step ==
    /\ sent' # sent =>
           /\ Len(sent') = Len(sent) + 1
           /\ \E th \in Threads : pc[th] = "send" /\ pc'[th] = "exit"
    /\ \A th \in Threads :
           /\ (pc'[th] = "send" /\ Steps(th)) => pc[th] = "decide"
           /\ (pc[th] = "send" /\ Steps(th)) => (pc'[th] = "exit" /\ sent' # sent)
    /\ topic_alert_state' # topic_alert_state =>
           \E th \in Threads : pc[th] = "decide" /\ pc'[th] = "send"

\* C9: every call sends zero or one notification, and one exactly when it
\* changes the alert state of its topic: ALERT for in-range to out-of-range,
\* INFO for out-of-range to in-range.
C9_OnePerTransition == []C9_AtReturn /\ [][C9_Step]_vars

\* a call that read "out of range" took the topic back in range and has
\* sent the INFO, the second notification of the run
C9_Witness ==
    \E th \in Threads :
        /\ Evaluated(th)
        /\ currently_out_of_range[th] /\ ~Post(th)
        /\ Emitted(th) = "INFO"
        /\ Len(sent) = 2

\* ------------------------------------------------------------------ C13
\* C13 as stated: every topic the program monitors has max_value > min_value
\* and hysteresis >= 0.
C13_MonitoredConfigValid ==
    \A i \in DOMAIN topics_info :
        /\ topics_info[i].max_value > topics_info[i].min_value
        /\ topics_info[i].hysteresis >= 0

\* ------------------------------------------------------------------ C11
\* the entries of topics_info with the name t
EntriesOf(t) == { i \in DOMAIN topics_info : topics_info[i].topic = t }

\* the returning call of th left the state and sent the notification that the
\* settings e give for its value and the state it read
EvaluatedAgainst(th, e) ==
    LET v == current_value[th]
        leaves == (v >= e.max_value + e.hysteresis) \/ (v <= e.min_value - e.hysteresis)
        returns == (v <= e.max_value - e.hysteresis) /\ (v >= e.min_value + e.hysteresis)
    IN  IF ~currently_out_of_range[th]
        THEN Post(th) = leaves /\ Emitted(th) = (IF leaves THEN "ALERT" ELSE "none")
        ELSE Post(th) = ~returns /\ Emitted(th) = (IF returns THEN "INFO" ELSE "none")

\* C11 as stated: a call on a topic listed more than once is evaluated with
\* the settings of the last entry of that name, and the name has one state.
C11_LastEntryWins ==
    \A th \in Threads :
        (Evaluated(th) /\ Cardinality(EntriesOf(topic[th])) > 1) =>
            /\ EvaluatedAgainst(th,
                   topics_info[CHOOSE i \in EntriesOf(topic[th]) :
                                   \A j \in EntriesOf(topic[th]) : i >= j])
            /\ DOMAIN topic_alert_state = {topic[th]}

\* C11, amended: a call on a topic listed more than once is evaluated with
\* the settings of the first entry of that name, and the name has one state.
C11_FirstEntryWins ==
    \A th \in Threads :
        (Evaluated(th) /\ Cardinality(EntriesOf(topic[th])) > 1) =>
            /\ EvaluatedAgainst(th,
                   topics_info[CHOOSE i \in EntriesOf(topic[th]) :
                                   \A j \in EntriesOf(topic[th]) : i <= j])
            /\ DOMAIN topic_alert_state = {topic[th]}

\* the value 5 on t1 listed as (2, 4, 1) and then (0, 6, 0): the first entry
\* gives the ALERT, the last would give nothing
C11_Witness ==
    \E th \in Threads :
        /\ Evaluated(th)
        /\ Len(topics_info) = 2
        /\ topics_info[1].hysteresis = 1
        /\ ~currently_out_of_range[th]
        /\ current_value[th] = 5
        /\ Emitted(th) = "ALERT"

\* ------------------------------------------------------------------ C12
\* C12 as stated: no call ends the thread that delivers the messages, the
\* lock is free whenever its last holder has returned, and the states and the
\* notifications are those of the valid events alone (history holds only the
\* events that had a configured topic and a number as payload).
C12_BadMessagesAbsorbed ==
    /\ \A th \in Threads : pc[th] # "raised"
    /\ \A th \in Threads : pc[th] \in {"idle", "acquire"} => userdata_lock # th
    /\ Quiet =>
           /\ topic_alert_state = SerialState(history)
           /\ sent = SerialSent(history)

\* ------------------------------------------------------------------ C14
\* a call that has called send_telegram_message returns with the transition
\* it made, however the send ended, and it has not sent an ALERT for a topic
\* it found out of range nor an INFO for one it found in range
C14_AtReturn ==
    \A th \in Threads :
        Returning(th) =>
            /\ delivery[th] # "none" =>
                   /\ delivery[th] \in PostOutcomes \cup {"not_configured"}
                   /\ Post(th) = ~currently_out_of_range[th]
            /\ currently_out_of_range[th] => Emitted(th) # "ALERT"
            /\ (Evaluated(th) /\ ~currently_out_of_range[th]) => Emitted(th) # "INFO"

\* the step in which the send ends writes no alert state, adds the one
\* notification and takes the call to its return: no retry
C14_Step ==
    \A th \in Threads :
        (pc[th] = "send" /\ delivery'[th] # delivery[th]) =>
            /\ topic_alert_state' = topic_alert_state
            /\ Len(sent') = Len(sent) + 1
            /\ pc'[th] = "exit"

\* C14: the outcome of the send is not fed back: the transition is kept for
\* every outcome, the send is not repeated, and a later call does not send
\* again the notification of a transition already made.
C14_NoFeedback == []C14_AtReturn /\ [][C14_Step]_vars

\* the ALERT ended in a request exception and the topic is left out of range
C14_Witness ==
    \E th \in Threads :
        /\ Returning(th)
        /\ delivery[th] = "request_exception"
        /\ ~currently_out_of_range[th]
        /\ Post(th)

\* ------------------------------------------------------------------ C15
\* the call of th read "in range", the topic has hysteresis 0 and the value
\* is exactly min_value or exactly max_value
AtBandEdge(th) ==
    /\ Evaluated(th)
    /\ ~currently_out_of_range[th]
    /\ Cfg(th).hysteresis = 0
    /\ current_value[th] \in {Cfg(th).min_value, Cfg(th).max_value}

\* C15 as stated: with hysteresis 0 a value equal to min_value or max_value
\* on an in-range topic makes no transition and no ALERT.
C15_EdgeInRange ==
    \A th \in Threads : AtBandEdge(th) => (~Post(th) /\ Emitted(th) = "none")

\* C15, amended: with hysteresis 0 a value equal to min_value or max_value
\* on an in-range topic takes it out of range with one ALERT; the values
\* strictly between min_value and max_value make no transition and no ALERT.
C15_EdgeOutOfRange ==
    \A th \in Threads :
        /\ AtBandEdge(th) => (Post(th) /\ Emitted(th) = "ALERT")
        /\ ( /\ Evaluated(th)
             /\ ~currently_out_of_range[th]
             /\ Cfg(th).hysteresis = 0
             /\ current_value[th] > Cfg(th).min_value
             /\ current_value[th] < Cfg(th).max_value ) =>
               (~Post(th) /\ Emitted(th) = "none")

\* the value min_value has raised the ALERT on a topic with hysteresis 0
C15_Witness ==
    \E th \in Threads :
        /\ AtBandEdge(th)
        /\ current_value[th] = Cfg(th).min_value
        /\ Post(th)
        /\ Emitted(th) = "ALERT"

\* ------------------------------------------------------------------ C16
\* the band of the settings m is narrower than twice its hysteresis
Narrow(m) == m.max_value - m.min_value < 2 * m.hysteresis

\* a topic with a narrow band that is out of range stays out of range
C16_Step ==
    \A t \in DOMAIN topic_alert_state :
        (Narrow(topics_info[Match(topics_info, t)]) /\ topic_alert_state[t]) =>
            topic_alert_state'[t]

\* no INFO has been sent for a topic with a narrow band
C16_NoInfo ==
    \A i \in DOMAIN sent :
        Narrow(topics_info[Match(topics_info, sent[i].topic)]) =>
            sent[i].severity # "INFO"

\* C16: a topic with max_value - min_value < 2 * hysteresis that has become
\* out of range stays out of range whatever values follow, and no INFO is
\* ever sent for it.
C16_NeverReturns == []C16_NoInfo /\ [][C16_Step]_vars

\* a narrow band went out of range and has since seen a value inside
\* [min_value, max_value]: still out of range, one ALERT, no INFO
C16_Witness ==
    /\ Quiet
    /\ Narrow(Only)
    /\ Len(history) >= 2
    /\ history[Len(history)].value >= Only.min_value
    /\ history[Len(history)].value <= Only.max_value
    /\ topic_alert_state["t1"]
    /\ SentSeverities = <<"ALERT">>

\* ------------------------------------------------------------------ C17
\* v lies strictly between an in-threshold and the out-threshold of the same
\* side of the band of m
InDeadZone(v, m) ==
    \/ (v > m.max_value - m.hysteresis) /\ (v < m.max_value + m.hysteresis)
    \/ (v > m.min_value - m.hysteresis) /\ (v < m.min_value + m.hysteresis)

\* C17 as stated: for a topic with hysteresis > 0 a value in a dead zone
\* leaves the alert state as the call read it and sends nothing.
C17_DeadZone ==
    \A th \in Threads :
        ( /\ Evaluated(th)
          /\ Cfg(th).hysteresis > 0
          /\ InDeadZone(current_value[th], Cfg(th)) ) =>
            (Post(th) = currently_out_of_range[th] /\ Emitted(th) = "none")

\* ------------------------------------------------------------------ C18
\* the names of the configured topics
ConfiguredNames == { topics_info[i].topic : i \in DOMAIN topics_info }

\* topic_alert_state has one boolean entry for each configured name and no
\* other entry, and before the first message every entry is False
C18_Entries ==
    /\ DOMAIN topic_alert_state = ConfiguredNames
    /\ \A t \in ConfiguredNames : topic_alert_state[t] \in BOOLEAN
    /\ received = 0 => \A t \in ConfiguredNames : topic_alert_state[t] = FALSE

\* no step adds or removes an entry, and an entry changes only in the
\* transition of a call for that topic
C18_Step ==
    /\ DOMAIN topic_alert_state' = DOMAIN topic_alert_state
    /\ \A t \in DOMAIN topic_alert_state :
           topic_alert_state'[t] # topic_alert_state[t] =>
               \E th \in Threads :
                   /\ pc[th] = "decide"
                   /\ Steps(th)
                   /\ topic[th] = t

\* C18: after startup every configured topic has exactly one alert-state
\* entry and it is False; the keys of topic_alert_state stay the configured
\* names for the whole run, and an entry is written only by an on_message
\* call for that topic.
C18_OneEntryPerTopic == []C18_Entries /\ [][C18_Step]_vars

\* two topics are configured, a call for t2 has taken it out of range and
\* the entry of t1 is still the one of startup
C18_Witness ==
    /\ Quiet
    /\ ConfiguredNames = {"t1", "t2"}
    /\ topic_alert_state["t2"] = TRUE
    /\ topic_alert_state["t1"] = FALSE
    /\ \A i \in DOMAIN history : history[i].topic = "t2"

\* ------------------------------------------------------------------ C19
\* the notifications sent for topic t, in order
SentFor(t) == SelectSeq(sent, LAMBDA n : n.topic = t)

\* the number of notifications of severity sev sent for topic t
CountFor(t, sev) ==
    Cardinality({ i \in DOMAIN SentFor(t) : SentFor(t)[i].severity = sev })

\* a call for topic t has written the new state and is inside
\* send_telegram_message
Sending(t) == \E th \in Threads : pc[th] = "send" /\ topic[th] = t

\* the notifications of t are ALERT, INFO, ALERT, ... from the first one
Alternates(t) ==
    \A i \in DOMAIN SentFor(t) :
        SentFor(t)[i].severity = IF i % 2 = 1 THEN "ALERT" ELSE "INFO"

\* ALERTs minus INFOs of t is 1 when t is out of range and 0 when in range
Balanced(t) ==
    CountFor(t, "ALERT") - CountFor(t, "INFO") = IF topic_alert_state[t] THEN 1 ELSE 0

HistoryFor(t) == SelectSeq(history, LAMBDA e : e.topic = t)

\* a step of a call for topic T changes no alert state but that of T and
\* adds no notification but one that names T
C20_Step ==
    \A th \in Threads :
        Steps(th) =>
            /\ \A t \in DOMAIN topic_alert_state \ {CallTopic(th)} :
                   topic_alert_state'[t] = topic_alert_state[t]
            /\ sent' # sent => sent'[Len(sent')].topic = CallTopic(th)

\* whenever the lock is free, the state and the notifications of a topic are
\* those its own values give, whatever was delivered on other topics
C20_Independent ==
    userdata_lock = NoThread =>
        \A t \in ConfiguredNames :
            /\ topic_alert_state[t] = SerialState(HistoryFor(t))[t]
            /\ SentFor(t) = SerialSent(HistoryFor(t))

\* C20: an on_message call for topic T leaves the alert state of every other
\* configured topic unchanged and sends no notification that names another
\* topic, so the notifications of a topic depend only on the values
\* delivered on that topic.
C20_Frame == []C20_Independent /\ [][C20_Step]_vars

\* an ALERT for t2 was sent between the ALERT and the INFO of t1, while t1
\* was out of range
C20_Witness ==
    /\ Quiet
    /\ Len(sent) = 3
    /\ sent[1] = [severity |-> "ALERT", topic |-> "t1"]
    /\ sent[2] = [severity |-> "ALERT", topic |-> "t2"]
    /\ sent[3] = [severity |-> "INFO", topic |-> "t1"]

====
